---- MODULE Spec2Model ----
(***************************************************************************)
(* Bubble sort, selection sort and insertion sort over a fixed-length      *)
(* array of integers, as written in the three programs of the repository.  *)
(* Each sort is modelled at the granularity of one loop step.  A value of  *)
(* the 64-bit unsigned type size_t is held as the integer of least         *)
(* magnitude congruent to it modulo 2^64: 2^64-1 is held as -1, 2^64-2 as  *)
(* -2.  Adding or subtracting 1 is then integer arithmetic (0 - 1 wraps to *)
(* 2^64-1), and the unsigned order is ULess.                               *)
(*                                                                         *)
(* An access arr[k] with k outside 0..n-1 is undefined behaviour.  Its     *)
(* outcomes are those g++ builds of the programs produce: the access goes  *)
(* to the memory next to the array (mem: a word holds what was last stored *)
(* there), the program is ended at the access (std::array::operator[]      *)
(* built with _GLIBCXX_ASSERTIONS aborts, the hardware faults), or the     *)
(* build, compiled on the assumption that the access never happens, has    *)
(* left the loop before it.  The words before the array are part of the    *)
(* input: MemoryBefore enumerates them.                                    *)
(***************************************************************************)
EXTENDS Integers, FiniteSets, Sequences

VARIABLES alg, n, input, arr, org, mem, pc, i, j, end, swapped, min, temp,
          tempOrg, swaps, cmps, passes, oob

vars == <<alg, n, input, arr, org, mem, pc, i, j, end, swapped, min, temp,
          tempOrg, swaps, cmps, passes, oob>>

\* ---------------------------------------------------------------- bounds
MaxLen == 4
MaxVal == 3
MaxWalk == 4

\* ------------------------------------------------------------- data types
\* a < b on size_t: a held value below 0 stands for 2^64 + that value, so it
\* is greater than every held value from 0 upwards
ULess(a, b) ==
    IF (a >= 0) = (b >= 0) THEN a < b ELSE a >= 0

Values == 1..MaxVal

\* what a word of the memory next to the array may hold
GarbageVals == 0..(MaxVal + 1)

\* origin tag of a value that did not come from the input
NoOrigin == 0 - 1

Algorithms == {"bubble", "selection", "insertion"}

\* the array built by main(), positions 0..10
SampleSeq == <<1, 5, 99, 14, 56, 4, 78, 100, 45, 87, 1>>
SampleInput == [k \in 0..(Len(SampleSeq) - 1) |-> SampleSeq[k + 1]]

\* ---------------------------------------------------------- array access
InRange(k) == k \in 0..(n - 1)

\* a word: its value and the input position the value came from
Cell(v, o) == [val |-> v, org |-> o]

\* the array and the memory next to it
Cur == [a |-> arr, o |-> org, m |-> mem]

\* what the expression arr[k] may evaluate to in memory M.  An array of
\* length 0 has no storage (std::array<int, 0>::operator[] refers to the
\* object at the null address): no evaluation of arr[k] yields a word
Load(M, k) ==
    IF k \in DOMAIN M.a THEN {Cell(M.a[k], M.o[k])}
    ELSE IF k \in DOMAIN M.m THEN {M.m[k]}
    ELSE IF DOMAIN M.a = {} THEN {}
    ELSE {Cell(g, NoOrigin) : g \in GarbageVals}

\* memory M after the assignment arr[k] = c (or after arr[k] was found to
\* hold c)
Put(M, k, c) ==
    IF k \in DOMAIN M.a
    THEN [M EXCEPT !.a[k] = c.val, !.o[k] = c.org]
    ELSE [M EXCEPT !.m = [x \in (DOMAIN M.m) \cup {k} |->
                             IF x = k THEN c ELSE M.m[x]]]

\* std::swap(arr[p], arr[q]) where a, b are the words read at p, q
SwapAt(M, p, q, a, b) == Put(Put(M, p, b), q, a)

Commit(M) == arr' = M.a /\ org' = M.o /\ mem' = M.m

\* ------------------------------------------------------------------ Init
\* the arrays of a given length
ArraysOf(len) == [0..(len - 1) -> Values]

\* the arrays the sorts are run on: every array of length 0..MaxLen, and
\* the array of main()
Inputs == UNION {ArraysOf(len) : len \in 0..MaxLen} \cup {SampleInput}

\* what the words before the array may hold when the sort is called: any
\* values, with a word holding 0 at most MaxWalk words before the array
MemoryBefore ==
    {m \in [(0 - MaxWalk)..(0 - 1) -> {Cell(g, NoOrigin) : g \in GarbageVals}] :
        m[0 - MaxWalk].val = 0}

\* the state when the sort is called on one of the arrays `inputs`, with
\* the words before the array as in one of `memories` (they are given for
\* insertion_sort on an array that has storage: the one sort whose index
\* walks below 0)
Start(inputs, memories) ==
    /\ alg \in Algorithms
    /\ input \in inputs
    /\ n = Cardinality(DOMAIN input)
    /\ arr = input
    /\ org = [k \in 0..(n - 1) |-> k]
    /\ mem \in (IF alg = "insertion" /\ n >= 1 THEN memories ELSE {<< >>})
    /\ pc = "start"
    /\ i = 0 /\ j = 0 /\ end = 0 /\ min = 0 /\ temp = 0
    /\ tempOrg = NoOrigin
    /\ swapped = FALSE
    /\ swaps = 0 /\ cmps = 0 /\ passes = 0
    /\ oob = FALSE

Init == Start(Inputs, MemoryBefore)

\* ----------------------------------------------------------- bubble_sort
GreaterOrEqual(a, b) == a >= b
\* arr[i] > arr[i + 1]
Greater(a, b) == a > b

ScanContinuesShort(k, e) == ULess(k + 1, e)
\* i < end
ScanContinues(k, e) == ULess(k, e)

BubbleEnter ==
    /\ pc = "start" /\ alg = "bubble"
    /\ end' = n - 1
    /\ swapped' = FALSE
    /\ pc' = "b_do"
    /\ UNCHANGED <<alg, n, input, arr, org, mem, i, j, min, temp, tempOrg,
                   swaps, cmps, passes, oob>>

BubbleDo ==
    /\ pc = "b_do"
    /\ swapped' = FALSE
    /\ i' = 0
    /\ pc' = "b_for"
    /\ UNCHANGED <<alg, n, input, arr, org, mem, j, end, min, temp, tempOrg,
                   swaps, cmps, passes, oob>>

BubbleSwap ==
    /\ pc = "b_for" /\ ScanContinues(i, end)
    /\ \E a \in Load(Cur, i), b \in Load(Cur, i + 1) :
          /\ Greater(a.val, b.val)
          /\ Commit(SwapAt(Cur, i, i + 1, a, b))
    /\ swapped' = TRUE
    /\ swaps' = swaps + 1
    /\ cmps' = cmps + 1
    /\ i' = i + 1
    /\ oob' = (oob \/ ~InRange(i) \/ ~InRange(i + 1))
    /\ UNCHANGED <<alg, n, input, pc, j, end, min, temp, tempOrg, passes>>

BubbleKeep ==
    /\ pc = "b_for" /\ ScanContinues(i, end)
    /\ \E a \in Load(Cur, i), b \in Load(Cur, i + 1) :
          /\ ~Greater(a.val, b.val)
          /\ Commit(Put(Put(Cur, i, a), i + 1, b))
    /\ cmps' = cmps + 1
    /\ i' = i + 1
    /\ oob' = (oob \/ ~InRange(i) \/ ~InRange(i + 1))
    /\ UNCHANGED <<alg, n, input, pc, j, end, swapped, min, temp,
                   tempOrg, swaps, passes>>

BubbleWhile ==
    /\ pc = "b_for" /\ ~ScanContinues(i, end)
    /\ end' = end - 1
    /\ passes' = passes + 1
    /\ pc' = IF swapped THEN "b_do" ELSE "done"
    /\ UNCHANGED <<alg, n, input, arr, org, mem, i, j, swapped, min, temp,
                   tempOrg, swaps, cmps, oob>>

\* -------------------------------------------------------- selection_sort
InnerStartSelf(k) == k
\* size_t j = i + 1
InnerStart(k) == k + 1

NeedSwapAlways(m, k) == TRUE
\* min != i
NeedSwap(m, k) == m # k

\* arr[j] < arr[min]
Less(a, b) == a < b

SelectionEnter ==
    /\ pc = "start" /\ alg = "selection"
    /\ i' = 0
    /\ pc' = "s_for"
    /\ UNCHANGED <<alg, n, input, arr, org, mem, j, end, swapped, min, temp,
                   tempOrg, swaps, cmps, passes, oob>>

SelectionFor ==
    /\ pc = "s_for" /\ ULess(i, n)
    /\ min' = i
    /\ j' = InnerStart(i)
    /\ pc' = "s_inner"
    /\ UNCHANGED <<alg, n, input, arr, org, mem, i, end, swapped, temp,
                   tempOrg, swaps, cmps, passes, oob>>

SelectionCompare ==
    /\ pc = "s_inner" /\ ULess(j, n)
    /\ \E a \in Load(Cur, j), b \in Load(Cur, min) :
          /\ min' = IF Less(a.val, b.val) THEN j ELSE min
          /\ Commit(Put(Put(Cur, j, a), min, b))
    /\ cmps' = cmps + 1
    /\ j' = j + 1
    /\ oob' = (oob \/ ~InRange(j) \/ ~InRange(min))
    /\ UNCHANGED <<alg, n, input, pc, i, end, swapped, temp,
                   tempOrg, swaps, passes>>

SelectionSwap ==
    /\ pc = "s_inner" /\ ~ULess(j, n)
    /\ NeedSwap(min, i)
    /\ \E a \in Load(Cur, i), b \in Load(Cur, min) :
          Commit(SwapAt(Cur, i, min, a, b))
    /\ swaps' = swaps + 1
    /\ i' = i + 1
    /\ pc' = "s_for"
    /\ oob' = (oob \/ ~InRange(i) \/ ~InRange(min))
    /\ UNCHANGED <<alg, n, input, j, end, swapped, min, temp, tempOrg,
                   cmps, passes>>

SelectionSkip ==
    /\ pc = "s_inner" /\ ~ULess(j, n)
    /\ ~NeedSwap(min, i)
    /\ i' = i + 1
    /\ pc' = "s_for"
    /\ UNCHANGED <<alg, n, input, arr, org, mem, j, end, swapped, min, temp,
                   tempOrg, swaps, cmps, passes, oob>>

SelectionReturn ==
    /\ pc = "s_for" /\ ~ULess(i, n)
    /\ pc' = "done"
    /\ UNCHANGED <<alg, n, input, arr, org, mem, i, j, end, swapped, min,
                   temp, tempOrg, swaps, cmps, passes, oob>>

\* -------------------------------------------------------- insertion_sort
\* i < arr.size() - 1
OuterContinues(k) == ULess(k, n - 1)

\* j >= 0 && arr[j] > temp, with v the value read at j
WhileGuard(k, v, t) == ~ULess(k, 0) /\ v > t

InsertionEnter ==
    /\ pc = "start" /\ alg = "insertion"
    /\ i' = 0
    /\ pc' = "i_for"
    /\ UNCHANGED <<alg, n, input, arr, org, mem, j, end, swapped, min, temp,
                   tempOrg, swaps, cmps, passes, oob>>

InsertionFor ==
    /\ pc = "i_for" /\ OuterContinues(i)
    /\ \E c \in Load(Cur, i + 1) :
          /\ temp' = c.val
          /\ tempOrg' = c.org
          /\ Commit(Put(Cur, i + 1, c))
    /\ j' = i
    /\ pc' = "i_while"
    /\ oob' = (oob \/ ~InRange(i + 1))
    /\ UNCHANGED <<alg, n, input, i, end, swapped, min,
                   swaps, cmps, passes>>

InsertionShift ==
    /\ pc = "i_while"
    /\ \E c \in Load(Cur, j) :
          /\ WhileGuard(j, c.val, temp)
          /\ Commit(Put(Put(Cur, j, c), j + 1, c))
    /\ j' = j - 1
    /\ oob' = (oob \/ ~InRange(j) \/ ~InRange(j + 1))
    /\ UNCHANGED <<alg, n, input, pc, i, end, swapped, min, temp, tempOrg,
                   swaps, cmps, passes>>

InsertionPlace ==
    /\ pc = "i_while"
    /\ \E c \in Load(Cur, j) :
          /\ ~WhileGuard(j, c.val, temp)
          /\ Commit(Put(Put(Cur, j, c), j + 1, Cell(temp, tempOrg)))
    /\ i' = i + 1
    /\ pc' = "i_for"
    /\ oob' = (oob \/ ~InRange(j) \/ ~InRange(j + 1))
    /\ UNCHANGED <<alg, n, input, j, end, swapped, min, temp, tempOrg,
                   swaps, cmps, passes>>

InsertionReturn ==
    /\ pc = "i_for" /\ ~OuterContinues(i)
    /\ pc' = "done"
    /\ UNCHANGED <<alg, n, input, arr, org, mem, i, j, end, swapped, min,
                   temp, tempOrg, swaps, cmps, passes, oob>>

\* ------------------------------------------------- undefined behaviour
\* the next element access of the running sort is outside the array
NextAccessOutOfRange ==
    \/ /\ pc = "b_for" /\ ScanContinues(i, end)
       /\ (~InRange(i) \/ ~InRange(i + 1))
    \/ /\ pc = "i_for" /\ OuterContinues(i)
       /\ ~InRange(i + 1)
    \/ /\ pc = "i_while"
       /\ (~InRange(j) \/ ~InRange(j + 1))
    \/ /\ pc = "s_inner" /\ ULess(j, n)
       /\ (~InRange(j) \/ ~InRange(min))
    \/ /\ pc = "s_inner" /\ ~ULess(j, n) /\ NeedSwap(min, i)
       /\ (~InRange(i) \/ ~InRange(min))

\* an access outside the array may end the program: operator[] aborts when
\* the library is built with assertions, or the access faults (with length
\* 0 it is an access to the null address)
Fault ==
    /\ NextAccessOutOfRange
    /\ pc' = "crashed"
    /\ oob' = TRUE
    /\ UNCHANGED <<alg, n, input, arr, org, mem, i, j, end, swapped, min,
                   temp, tempOrg, swaps, cmps, passes>>

\* a build compiled on the assumption that no access is outside the array
\* leaves the loop of insertion_sort at j = 0: arr[0] stays where it is and
\* temp goes to arr[1] (g++ -O3 returns [2, 1] for [2, 1] and [3, 1, 2] for
\* [3, 2, 1])
UndefinedLeave ==
    /\ pc = "i_while" /\ j = 0 - 1 /\ n >= 1
    /\ Commit(Put(Cur, j + 2, Cell(temp, tempOrg)))
    /\ j' = 0
    /\ i' = i + 1
    /\ pc' = "i_for"
    /\ oob' = TRUE
    /\ UNCHANGED <<alg, n, input, end, swapped, min, temp, tempOrg,
                   swaps, cmps, passes>>

\* with length 0 such a build has no loop left at all: the sort returns at
\* once (g++ -O1, -O2 and -O3)
UndefinedReturn ==
    /\ n = 0 /\ NextAccessOutOfRange
    /\ pc' = "done"
    /\ oob' = TRUE
    /\ UNCHANGED <<alg, n, input, arr, org, mem, i, j, end, swapped, min,
                   temp, tempOrg, swaps, cmps, passes>>

\* ------------------------------------------------------------------ Next
Next ==
    \/ BubbleEnter \/ BubbleDo \/ BubbleSwap \/ BubbleKeep \/ BubbleWhile
    \/ SelectionEnter \/ SelectionFor \/ SelectionCompare
    \/ SelectionSwap \/ SelectionSkip \/ SelectionReturn
    \/ InsertionEnter \/ InsertionFor \/ InsertionShift
    \/ InsertionPlace \/ InsertionReturn
    \/ Fault \/ UndefinedLeave \/ UndefinedReturn

Spec == Init /\ [][Next]_vars

\* the sort is a sequential program: an enabled step is eventually taken
FairSpec == Spec /\ WF_vars(Next)

\* bubble_sort alone
InitBubble == alg = "bubble" /\ Init
NextBubble ==
    \/ BubbleEnter \/ BubbleDo \/ BubbleSwap \/ BubbleKeep \/ BubbleWhile
    \/ Fault \/ UndefinedReturn
SpecBubble == InitBubble /\ [][NextBubble]_vars

\* selection_sort alone
InitSelection == alg = "selection" /\ Init
NextSelection ==
    \/ SelectionEnter \/ SelectionFor \/ SelectionCompare
    \/ SelectionSwap \/ SelectionSkip \/ SelectionReturn
SpecSelection == InitSelection /\ [][NextSelection]_vars

\* ============================================================== claims
Done == pc = "done"

\* s[p] <= s[p+1] for every adjacent pair of positions
IsSorted(a) ==
    \A p \in DOMAIN a : (p + 1) \in DOMAIN a => a[p] <= a[p + 1]

Range(a) == {a[p] : p \in DOMAIN a}

CountOf(a, v) == Cardinality({p \in DOMAIN a : a[p] = v})

\* the two arrays hold the same multiset of values
SameMultiset(a, b) ==
    \A v \in Range(a) \cup Range(b) : CountOf(a, v) = CountOf(b, v)

\* the expected output of the sample scenario, positions 0..10
SampleSortedSeq == <<1, 1, 4, 5, 14, 45, 56, 78, 87, 99, 100>>
SampleSorted == [k \in 0..(Len(SampleSortedSeq) - 1) |-> SampleSortedSeq[k + 1]]

\* C1 Sortedness: whenever one of the three sorts has returned on a
\* non-empty input, the array is in non-decreasing order, and the sample
\* input ends as the expected sample output.
C1_Sortedness ==
    (Done /\ n >= 1) =>
        /\ IsSorted(arr)
        /\ (input = SampleInput => arr = SampleSorted)

\* C2 Permutation preservation: whenever one of the three sorts has returned
\* on a non-empty input, and between two outer iterations of insertion_sort
\* (each overwrite compensated by the final arr[j+1] = temp), the array
\* holds the multiset of values of the input.
C2_Permutation ==
    (n >= 1 /\ pc \in {"done", "i_for"}) => SameMultiset(arr, input)

\* C3 No out-of-range access: on a non-empty input no step of the three
\* sorts has read or written, or is about to read or write, an element at
\* an index outside 0..n-1, and no sort has faulted.
C3_NoOutOfRange ==
    n >= 1 => (~oob /\ ~NextAccessOutOfRange /\ pc # "crashed")

\* C4 Stability of the insertion variant: when insertion_sort has returned
\* on a non-empty input, for every two input positions p < q holding equal
\* values the element that started at p lies at a lower position than the
\* element that started at q.
C4_Stability ==
    (Done /\ n >= 1 /\ alg = "insertion") =>
        \A p \in DOMAIN input : \A q \in DOMAIN input :
            (p < q /\ input[p] = input[q]) =>
                \E a \in DOMAIN org : \E b \in DOMAIN org :
                    a < b /\ org[a] = p /\ org[b] = q

\* C5 Swap-count bound of the selection variant: at every moment of a run
\* of selection_sort the number of swaps is at most the number of completed
\* outer iterations, and on a non-empty input at most n-1 (none in the last
\* outer iteration i = n-1).
C5_SwapBound ==
    alg = "selection" =>
        /\ swaps <= i
        /\ n >= 1 => swaps <= n - 1

\* a complete run of selection_sort on the longest input that swapped n-1 times
C5_Witness ==
    alg = "selection" /\ Done /\ n = MaxLen /\ swaps = n - 1

\* C6 Empty/singleton no-op: with the length taken as 0 or 1, no sort
\* reads or writes outside the sequence or faults, and the sequence stays
\* unchanged.
C6_EdgeNoOp ==
    n <= 1 =>
        /\ ~oob /\ ~NextAccessOutOfRange /\ pc # "crashed"
        /\ arr = input

\* C7 Termination: on a non-empty input each sort eventually returns, and
\* bubble_sort makes at most n passes.
C7_Termination ==
    n >= 1 => (<>Done /\ [](alg = "bubble" => passes <= n))

\* C8 Bubble pass invariant: on a non-empty input, once k passes of
\* bubble_sort are complete, each of the last k positions holds a value no
\* smaller than every value to its left while the array is a permutation
\* of the input (so they hold the k largest input values in order), and
\* the scan of the running pass stays below them (end = n-1-k).
C8_PassInvariant ==
    (alg = "bubble" /\ n >= 1 /\ pc # "start") =>
        /\ passes <= n
        /\ SameMultiset(arr, input)
        /\ \A p \in DOMAIN arr : p >= n - passes =>
              \A q \in DOMAIN arr : q < p => arr[q] <= arr[p]
        /\ pc \in {"b_do", "b_for"} => end = n - 1 - passes
        /\ pc = "b_for" => i <= end

\* two passes of bubble_sort are complete and the rest is still unsorted
C8_Witness ==
    /\ alg = "bubble" /\ pc = "b_for" /\ passes = 2 /\ i = 0
    /\ n = MaxLen /\ ~IsSorted(arr)

\* C9 Bubble early exit: on a non-empty input already in non-decreasing
\* order bubble_sort returns after exactly one pass, n-1 comparisons and no
\* swap, with the sequence unchanged; in general the loop is re-entered
\* only after a pass that swapped and is left after a pass that did not.
C9_EarlyExit ==
    (alg = "bubble" /\ n >= 1) =>
        /\ (Done /\ IsSorted(input)) =>
              (swaps = 0 /\ passes = 1 /\ cmps = n - 1 /\ arr = input)
        /\ (pc = "b_do" /\ passes >= 1) => swapped
        /\ Done => ~swapped

\* bubble_sort has returned on a sorted input of full length with a duplicate
C9_Witness ==
    /\ alg = "bubble" /\ Done /\ n = MaxLen /\ IsSorted(input)
    /\ passes = 1 /\ \E p \in DOMAIN input : (p + 1) \in DOMAIN input
                                             /\ input[p] = input[p + 1]

\* C10 Selection comparison count: a complete run of selection_sort on an
\* input of length n has evaluated arr[j] < arr[min] exactly n*(n-1)/2 times.
C10_CompareCount ==
    (alg = "selection" /\ Done) => 2 * cmps = n * (n - 1)

\* complete runs of selection_sort on the longest input, whatever its order
C10_Witness ==
    alg = "selection" /\ Done /\ n = MaxLen /\ ~IsSorted(input) /\ cmps > 0

TypeOK ==
    /\ alg \in Algorithms
    /\ pc \in {"start", "b_do", "b_for", "s_for", "s_inner", "i_for",
               "i_while", "done", "crashed"}
    /\ i \in Int /\ j \in Int /\ end \in Int
    /\ DOMAIN org = DOMAIN arr
    /\ \A k \in DOMAIN mem : ~InRange(k)
    /\ DOMAIN arr = 0..(n - 1)
====
